---- MODULE Spec2Model ----
(***************************************************************************)
(* Model of src/Neil/llm_labeling_demo.py: the batch run of main(), the    *)
(* two model calls per review (label_one, enforce_reasoning_limit), the    *)
(* hard guard on the reasoning length, and the fixture generator.          *)
(*                                                                         *)
(* A reasoning string is a sequence of one-character strings; a review     *)
(* text is a TLA+ string.  The remote model is the environment: every      *)
(* call returns one of a set of outcomes (an exception raised by the       *)
(* client library, or a message with a refusal and/or a parsed payload).   *)
(***************************************************************************)
EXTENDS Integers, Sequences, FiniteSets, TLC

VARIABLES
    pc,            \* position of the run in main() and its callees
    data_exists,   \* DATA_PATH.exists()
    data_file,     \* the rows stored at DATA_PATH
    gen_n,         \* argument n of the generator call of this run, -1 if none
    df,            \* the table loaded by pd.read_csv
    i,             \* 1-based position of the loop of main() in df
    max_words,     \* argument max_words of enforce_reasoning_limit
    msg,           \* outcome of the last model call (completion.choices[0].message)
    result,        \* dict returned by label_one, the argument of the second call
    out,           \* dict built by enforce_reasoning_limit
    rows,          \* rows accumulated by main()
    acc,           \* accuracy as <<matches, total>>
    out_file,      \* the rows stored at OUTPUT_PATH
    written,       \* to_csv(OUTPUT_PATH) ran in this run
    err,           \* the exception that ended the run
    label_calls,   \* requests issued by label_one
    enforce_calls, \* requests issued by enforce_reasoning_limit
    outstanding    \* requests issued and not yet returned

vars == <<pc, data_exists, data_file, gen_n, df, i, max_words, msg, result, out,
          rows, acc, out_file, written, err, label_calls, enforce_calls,
          outstanding>>

(***************************************************************************)
(* Bounds of the model.                                                    *)
(***************************************************************************)
\* Largest number of review records in a table.
MaxRecords == 3
\* The word limit handed to enforce_reasoning_limit (50 in main, scaled).
MaxWords == 2
\* Longest reasoning string enumerated for a single enforcement call.
MaxLen == 6

(***************************************************************************)
(* Characters and strings.                                                 *)
(***************************************************************************)
\* Whitespace as str.split() sees it.
WhitespaceChars == {" ", "\t"}
\* Characters matched by \w.
WordChars == {"a"}
\* A character that is neither: it separates regex words but not tokens.
PunctChars == {"-"}
Alphabet == WordChars \cup PunctChars \cup WhitespaceChars

IsSpace(c) == c \in WhitespaceChars
IsWordChar(c) == c \in WordChars

Min(a, b) == IF a < b THEN a ELSE b

\* re.findall(r"\b\w+\b", s) scans s from the left; each match is a maximal
\* run of word characters.
RECURSIVE FindAllWords(_, _, _)
FindAllWords(s, pos, n) ==
    IF pos > Len(s) THEN n
    ELSE IF IsWordChar(s[pos]) /\ (pos = 1 \/ ~IsWordChar(s[pos - 1]))
         THEN FindAllWords(s, pos + 1, n + 1)
         ELSE FindAllWords(s, pos + 1, n)

word_count(s) == FindAllWords(s, 1, 0)

\* s.split(): the maximal runs of non-whitespace characters, in order.
RECURSIVE SplitFrom(_, _, _, _)
SplitFrom(s, pos, cur, toks) ==
    IF pos > Len(s)
    THEN IF cur = <<>> THEN toks ELSE Append(toks, cur)
    ELSE IF IsSpace(s[pos])
         THEN SplitFrom(s, pos + 1, <<>>,
                        IF cur = <<>> THEN toks ELSE Append(toks, cur))
         ELSE SplitFrom(s, pos + 1, Append(cur, s[pos]), toks)

Split(s) == SplitFrom(s, 1, <<>>, <<>>)

\* toks[:k]
Take(toks, k) == SubSeq(toks, 1, Min(k, Len(toks)))

\* sep.join(toks)
RECURSIVE Join(_, _)
Join(sep, toks) ==
    IF toks = <<>> THEN <<>>
    ELSE IF Len(toks) = 1 THEN toks[1]
         ELSE toks[1] \o sep \o Join(sep, Tail(toks))

(***************************************************************************)
(* The fixture generator.                                                  *)
(***************************************************************************)
political == <<
    "This is woke propaganda dressed as a movie.",
    "Another SJW agenda push. Hard pass.",
    "Left/right culture-war nonsense ruined the plot.",
    "Pure identity politics. Not cinema.",
    "Party politics in superhero form. Obvious agenda.",
    "This felt like partisan messaging, not storytelling." >>

nonpolitical == <<
    "Bad pacing and weak dialogue.",
    "The acting was fine but the plot was messy.",
    "Great visuals, mediocre script.",
    "Too long; the third act dragged.",
    "Sound mixing was awful in my theater.",
    "Fun movie, not perfect, but enjoyable." >>

fillers == << "Seriously.", "LOL.", "Just my opinion." >>

\* The random draws of one loop iteration: is_pol is random.random() < 0.35,
\* k the index random.choice picks in the pool, suffix the index it picks in
\* fillers, 0 when random.random() < 0.25 is false.
AllDraws == [is_pol : BOOLEAN, k : 1..Len(political), suffix : 0..Len(fillers)]

\* The draws the model enumerates: both pools, first and last template,
\* without a suffix and with the last one.
DrawSamples ==
    { d \in AllDraws : <<d.k, d.suffix>> \in { <<1, 0>>, <<Len(political), Len(fillers)>> } }

\* The sequences of draws enumerated for a dataset of n rows: every draw for
\* a single row, the sampled draws for each row of a longer dataset.
DrawSeqs(n) == IF n = 1 THEN [1..1 -> AllDraws] ELSE [1..n -> DrawSamples]

\* One iteration of the loop of maybe_make_fake_dataset.  Every template and
\* filler starts and ends with a non-blank character, so txt.strip() is txt.
FakeRow(id, d) ==
    LET txt == IF d.is_pol THEN political[d.k] ELSE nonpolitical[d.k]
        y   == IF d.is_pol THEN 1 ELSE 0
        txt2 == IF d.suffix # 0 THEN txt \o " " \o fillers[d.suffix] ELSE txt
    IN  [review_id |-> id, review_text |-> txt2, true_is_political |-> y]

\* rows of maybe_make_fake_dataset(path, n) under the draws given.
FakeDataset(n, draws) == [id \in 1..n |-> FakeRow(id, draws[id])]

\* Tables of up to k rows over a set of rows.
SeqsUpTo(S, k) == UNION { [1..m -> S] : m \in 0..k }

\* A dataset already at DATA_PATH when the run starts: any table of review
\* records; the model enumerates tables over two records.
ExistingReviews ==
    { [review_id |-> 11, review_text |-> "Loved the soundtrack.", true_is_political |-> 0],
      [review_id |-> 12, review_text |-> "Woke agenda again.", true_is_political |-> 1] }

ExistingTables == SeqsUpTo(ExistingReviews, MaxRecords)

(***************************************************************************)
(* Outcomes of a model call.                                               *)
(***************************************************************************)
NoText == <<>>

\* raised: the exception client.beta.chat.completions.parse raises, "" if it
\* returns; refusal: msg.refusal, "" when None or empty; has_parsed: msg.parsed
\* is a PoliticalLabel; is_political, reasoning: its fields.
Outcome(raised, refusal, has_parsed, is_political, reasoning) ==
    [raised |-> raised, refusal |-> refusal, has_parsed |-> has_parsed,
     is_political |-> is_political, reasoning |-> reasoning]

NoMsg == Outcome("", "", FALSE, 0, NoText)

\* PoliticalLabel declares is_political: int with no range, so any integer
\* passes validation.
PoliticalValues == {0, 1, 2}

Raises == { Outcome(e, "", FALSE, 0, NoText) : e \in {"APIError", "ValidationError"} }
Refusals == { Outcome("", r, FALSE, 0, NoText) : r \in {"", "I cannot label this."} }
Parsed(R) == { Outcome("", "", TRUE, p, r) : p \in PoliticalValues, r \in R }

\* k copies of a token, separated by sep.
RECURSIVE Repeat(_, _, _)
Repeat(tok, sep, k) ==
    IF k = 0 THEN <<>> ELSE IF k = 1 THEN tok ELSE tok \o sep \o Repeat(tok, sep, k - 1)

\* A reasoning within the limit, and one of max_words + 1 hyphenated tokens.
ShortReasoning == <<"a">>
LongReasoning == Repeat(<<"a", "-", "a">>, <<" ">>, MaxWords + 1)

\* The outcomes the batch run enumerates for each call.
BatchOutcomes ==
    Raises \cup Refusals
    \cup { Outcome("", "", TRUE, 0, ShortReasoning),
           Outcome("", "", TRUE, 1, LongReasoning),
           Outcome("", "", TRUE, 2, ShortReasoning) }

\* Every string over Alphabet of at most MaxLen characters.
AllStrings == SeqsUpTo(Alphabet, MaxLen)

\* The outcomes enumerated for a single enforcement call.
AllOutcomes == Raises \cup Refusals \cup Parsed(AllStrings)

(***************************************************************************)
(* Records of the run.                                                     *)
(***************************************************************************)
NoResult == [is_political |-> 0, reasoning |-> NoText]
NoErr == [type |-> "", text |-> ""]
NoAcc == <<-1, -1>>

\* parsed.model_dump()
ModelDump(m) == [is_political |-> m.is_political, reasoning |-> m.reasoning]

\* Faulty variant of the hard guard: the limit is tested on the number of
\* whitespace tokens instead of the regex word count.
HardGuardSplitCount(o, mw) ==
    IF Len(Split(o.reasoning)) > mw
    THEN [o EXCEPT !.reasoning = Join(<<" ">>, Take(Split(o.reasoning), mw))]
    ELSE o

\* The hard guard of enforce_reasoning_limit.
HardGuard(o, mw) ==
    IF word_count(o.reasoning) > mw
    THEN [o EXCEPT !.reasoning = Join(<<" ">>, Take(Split(o.reasoning), mw))]
    ELSE o

\* The row main() appends for review r and enforced result o.
OutputRow(r, o) ==
    [review_id |-> r.review_id,
     review_text |-> r.review_text,
     true_is_political |-> r.true_is_political,
     pred_is_political |-> o.is_political,
     reasoning |-> o.reasoning,
     reasoning_words |-> word_count(o.reasoning)]

\* (out_df.true_is_political == out_df.pred_is_political).sum()
RECURSIVE Matches(_)
Matches(rs) ==
    IF rs = <<>> THEN 0
    ELSE (IF rs[1].true_is_political = rs[1].pred_is_political THEN 1 ELSE 0)
         + Matches(Tail(rs))

\* Faulty variant of the mean: taken over out_df.head(2), not over out_df.
MeanOfHead(rs) == <<Matches(SubSeq(rs, 1, Min(2, Len(rs)))), Min(2, Len(rs))>>

\* Series.mean(): sum over count.
Mean(rs) == <<Matches(rs), Len(rs)>>

(***************************************************************************)
(* The run.                                                                *)
(***************************************************************************)
\* The state main() starts in, given the dataset at DATA_PATH and the limit.
InitWith(exists, file, mw) ==
    /\ pc = "start"
    /\ data_exists = exists
    /\ data_file = file
    /\ gen_n = -1
    /\ df = <<>>
    /\ i = 1
    /\ max_words = mw
    /\ msg = NoMsg
    /\ result = NoResult
    /\ out = NoResult
    /\ rows = <<>>
    /\ acc = NoAcc
    /\ out_file = <<>>
    /\ written = FALSE
    /\ err = NoErr
    /\ label_calls = 0
    /\ enforce_calls = 0
    /\ outstanding = 0

Init ==
    \/ InitWith(FALSE, <<>>, MaxWords)
    \/ \E t \in ExistingTables : InitWith(TRUE, t, MaxWords)

\* An exception leaves main(): the run ends, nothing after it executes.
Raise(type, text) ==
    /\ pc' = "error"
    /\ err' = [type |-> type, text |-> text]

\* Faulty variant: the generator runs without the DATA_PATH.exists() test.
MakeFakeDatasetUnguarded(n, draws) ==
    /\ pc = "start"
    /\ data_file' = FakeDataset(n, draws)
    /\ data_exists' = TRUE
    /\ gen_n' = n
    /\ pc' = "load"
    /\ UNCHANGED <<df, i, max_words, msg, result, out, rows, acc, out_file,
                   written, err, label_calls, enforce_calls, outstanding>>

\* main: no dataset at DATA_PATH, so maybe_make_fake_dataset writes one.
MakeFakeDataset(n, draws) ==
    /\ pc = "start"
    /\ ~data_exists
    /\ data_file' = FakeDataset(n, draws)
    /\ data_exists' = TRUE
    /\ gen_n' = n
    /\ pc' = "load"
    /\ UNCHANGED <<df, i, max_words, msg, result, out, rows, acc, out_file,
                   written, err, label_calls, enforce_calls, outstanding>>

\* main: a dataset is at DATA_PATH, the generator is not called.
SkipFakeDataset ==
    /\ pc = "start"
    /\ data_exists
    /\ pc' = "load"
    /\ UNCHANGED <<data_exists, data_file, gen_n, df, i, max_words, msg, result,
                   out, rows, acc, out_file, written, err, label_calls,
                   enforce_calls, outstanding>>

\* main: df = pd.read_csv(DATA_PATH).
LoadData ==
    /\ pc = "load"
    /\ df' = data_file
    /\ i' = 1
    /\ pc' = "loop"
    /\ UNCHANGED <<data_exists, data_file, gen_n, max_words, msg, result, out,
                   rows, acc, out_file, written, err, label_calls, enforce_calls,
                   outstanding>>

\* main: pd.read_csv on the file an empty DataFrame was written to: a file
\* without a header line, which read_csv may refuse.
LoadDataNoColumns ==
    /\ pc = "load"
    /\ gen_n = 0
    /\ Raise("EmptyDataError", "")
    /\ UNCHANGED <<data_exists, data_file, gen_n, df, i, max_words, msg, result,
                   out, rows, acc, out_file, written, label_calls, enforce_calls,
                   outstanding>>

\* label_one: the request of the first call is sent.
LabelIssue ==
    /\ pc = "loop"
    /\ i <= Len(df)
    /\ label_calls' = label_calls + 1
    /\ outstanding' = outstanding + 1
    /\ pc' = "label_wait"
    /\ UNCHANGED <<data_exists, data_file, gen_n, df, i, max_words, msg, result,
                   out, rows, acc, out_file, written, err, enforce_calls>>

\* What the code after a call does with its outcome o: the exception of the
\* call propagates, a truthy refusal raises RuntimeError(refusal), a missing
\* parsed object fails on parsed.dict().
Failure(o) ==
    IF o.raised # "" THEN [type |-> o.raised, text |-> ""]
    ELSE IF o.refusal # "" THEN [type |-> "RuntimeError", text |-> o.refusal]
    ELSE IF ~o.has_parsed THEN [type |-> "AttributeError", text |-> ""]
    ELSE NoErr

\* Faulty variant: a failed first call is caught and the loop issues it again.
LabelReturnRetry(o) ==
    /\ pc = "label_wait"
    /\ outstanding' = outstanding - 1
    /\ msg' = o
    /\ IF Failure(o) # NoErr
       THEN /\ pc' = "loop"
            /\ UNCHANGED <<result, err>>
       ELSE /\ result' = ModelDump(o)
            /\ pc' = "label_done"
            /\ UNCHANGED err
    /\ UNCHANGED <<data_exists, data_file, gen_n, df, i, max_words, out, rows,
                   acc, out_file, written, label_calls, enforce_calls>>

\* label_one: the first call returns outcome o.
LabelReturn(o) ==
    /\ pc = "label_wait"
    /\ outstanding' = outstanding - 1
    /\ msg' = o
    /\ IF Failure(o) # NoErr
       THEN /\ Raise(Failure(o).type, Failure(o).text)
            /\ UNCHANGED result
       ELSE /\ result' = ModelDump(o)
            /\ pc' = "label_done"
            /\ UNCHANGED err
    /\ UNCHANGED <<data_exists, data_file, gen_n, df, i, max_words, out, rows,
                   acc, out_file, written, label_calls, enforce_calls>>

\* Faulty variant: the second call is skipped when the first reasoning is
\* already within the limit.
EnforceIssueIfOver ==
    /\ pc = "label_done"
    /\ IF word_count(result.reasoning) > max_words
       THEN /\ enforce_calls' = enforce_calls + 1
            /\ outstanding' = outstanding + 1
            /\ pc' = "enforce_wait"
            /\ UNCHANGED out
       ELSE /\ out' = result
            /\ pc' = "enforce_done"
            /\ UNCHANGED <<enforce_calls, outstanding>>
    /\ UNCHANGED <<data_exists, data_file, gen_n, df, i, max_words, msg, result,
                   rows, acc, out_file, written, err, label_calls>>

\* enforce_reasoning_limit: the request of the second call is sent.
EnforceIssue ==
    /\ pc = "label_done"
    /\ enforce_calls' = enforce_calls + 1
    /\ outstanding' = outstanding + 1
    /\ pc' = "enforce_wait"
    /\ UNCHANGED <<data_exists, data_file, gen_n, df, i, max_words, msg, result,
                   out, rows, acc, out_file, written, err, label_calls>>

\* Faulty variant: the is_political of the first call is put back into the
\* result of the second.
EnforceReturnRestoring(o) ==
    /\ pc = "enforce_wait"
    /\ outstanding' = outstanding - 1
    /\ msg' = o
    /\ IF Failure(o) # NoErr
       THEN /\ Raise(Failure(o).type, Failure(o).text)
            /\ UNCHANGED out
       ELSE /\ out' = [HardGuard(ModelDump(o), max_words)
                         EXCEPT !.is_political = result.is_political]
            /\ pc' = "enforce_done"
            /\ UNCHANGED err
    /\ UNCHANGED <<data_exists, data_file, gen_n, df, i, max_words, result, rows,
                   acc, out_file, written, label_calls, enforce_calls>>

\* enforce_reasoning_limit: the second call returns outcome o, the hard guard
\* is applied to its payload.
EnforceReturn(o) ==
    /\ pc = "enforce_wait"
    /\ outstanding' = outstanding - 1
    /\ msg' = o
    /\ IF Failure(o) # NoErr
       THEN /\ Raise(Failure(o).type, Failure(o).text)
            /\ UNCHANGED out
       ELSE /\ out' = HardGuard(ModelDump(o), max_words)
            /\ pc' = "enforce_done"
            /\ UNCHANGED err
    /\ UNCHANGED <<data_exists, data_file, gen_n, df, i, max_words, result, rows,
                   acc, out_file, written, label_calls, enforce_calls>>

\* Faulty variant: the row is inserted at the head of rows.
AppendRowPrepend ==
    /\ pc = "enforce_done"
    /\ rows' = <<OutputRow(df[i], out)>> \o rows
    /\ i' = i + 1
    /\ msg' = NoMsg
    /\ result' = NoResult
    /\ out' = NoResult
    /\ pc' = "loop"
    /\ UNCHANGED <<data_exists, data_file, gen_n, df, max_words, acc, out_file,
                   written, err, label_calls, enforce_calls, outstanding>>

\* main: enforce_reasoning_limit returns, the row is appended and the loop
\* moves to the next review; the locals of the two calls are gone.
AppendRow ==
    /\ pc = "enforce_done"
    /\ rows' = Append(rows, OutputRow(df[i], out))
    /\ i' = i + 1
    /\ msg' = NoMsg
    /\ result' = NoResult
    /\ out' = NoResult
    /\ pc' = "loop"
    /\ UNCHANGED <<data_exists, data_file, gen_n, df, max_words, acc, out_file,
                   written, err, label_calls, enforce_calls, outstanding>>

\* main after the loop: out_df, the accuracy, to_csv.  pd.DataFrame([]) has
\* no columns, so out_df.true_is_political raises AttributeError.
Report ==
    /\ pc = "loop"
    /\ i > Len(df)
    /\ IF rows = <<>>
       THEN /\ Raise("AttributeError", "true_is_political")
            /\ UNCHANGED <<acc, out_file, written>>
       ELSE /\ acc' = Mean(rows)
            /\ out_file' = rows
            /\ written' = TRUE
            /\ pc' = "done"
            /\ UNCHANGED err
    /\ UNCHANGED <<data_exists, data_file, gen_n, df, i, max_words, msg, result,
                   out, rows, label_calls, enforce_calls, outstanding>>

Next ==
    \/ \E n \in 0..MaxRecords : \E draws \in DrawSeqs(n) :
          MakeFakeDataset(n, draws)
    \/ SkipFakeDataset
    \/ LoadData
    \/ LoadDataNoColumns
    \/ LabelIssue
    \/ \E o \in BatchOutcomes : LabelReturn(o)
    \/ EnforceIssue
    \/ \E o \in BatchOutcomes : EnforceReturn(o)
    \/ AppendRow
    \/ Report

Spec == Init /\ [][Next]_vars

(***************************************************************************)
(* One call of enforce_reasoning_limit(client, result, max_words) on its   *)
(* own, for every limit up to MaxWords and every response of at most       *)
(* MaxLen characters.                                                      *)
(***************************************************************************)
InitEnforce ==
    \E mw \in 0..MaxWords :
        /\ pc = "label_done"
        /\ data_exists = TRUE
        /\ data_file = <<>>
        /\ gen_n = -1
        /\ df = <<>>
        /\ i = 1
        /\ max_words = mw
        /\ msg = NoMsg
        /\ result = [is_political |-> 1, reasoning |-> LongReasoning]
        /\ out = NoResult
        /\ rows = <<>>
        /\ acc = NoAcc
        /\ out_file = <<>>
        /\ written = FALSE
        /\ err = NoErr
        /\ label_calls = 1
        /\ enforce_calls = 0
        /\ outstanding = 0

\* The second call returns any of the outcomes enumerated for it.
EnforceReturnAny ==
    /\ pc = "enforce_wait"
    /\ \E o \in AllOutcomes : EnforceReturn(o)

NextEnforce ==
    \/ EnforceIssue
    \/ EnforceReturnAny

SpecEnforce == InitEnforce /\ [][NextEnforce]_vars

(***************************************************************************)
(* Vocabulary of the properties, stated by position in the string rather   *)
(* than by scanning.                                                       *)
(***************************************************************************)
\* Number of regex words of s: the positions where a run of word characters ends.
RegexWords(s) ==
    Cardinality({ p \in 1..Len(s) :
                    IsWordChar(s[p]) /\ (p = Len(s) \/ ~IsWordChar(s[p + 1])) })

\* The positions where a whitespace-separated token of s starts.
TokenStarts(s) ==
    { p \in 1..Len(s) : ~IsSpace(s[p]) /\ (p = 1 \/ IsSpace(s[p - 1])) }

\* The k-th whitespace-separated token of s.
Token(s, k) ==
    LET first == CHOOSE p \in TokenStarts(s) :
                    Cardinality({ q \in TokenStarts(s) : q <= p }) = k
        last  == CHOOSE q \in first..Len(s) :
                    /\ \A r \in first..q : ~IsSpace(s[r])
                    /\ q = Len(s) \/ IsSpace(s[q + 1])
    IN  SubSeq(s, first, last)

\* r is the first m tokens of s (all of them when s has fewer), separated by
\* one space each and by nothing else.
IsFirstTokensJoined(r, s, m) ==
    LET nt == Min(m, Cardinality(TokenStarts(s)))
    IN  /\ Cardinality(TokenStarts(r)) = nt
        /\ \A k \in 1..nt : Token(r, k) = Token(s, k)
        /\ \A p \in 1..Len(r) :
              IsSpace(r[p]) =>
                  /\ r[p] = " "
                  /\ 1 < p /\ p < Len(r)
                  /\ ~IsSpace(r[p + 1])

\* txt is a template of pool, with or without a filler after one space.
DrawnFrom(pool, txt) ==
    \E k \in 1..Len(pool) :
        \/ txt = pool[k]
        \/ \E j \in 1..Len(fillers) : txt = pool[k] \o " " \o fillers[j]

\* The review fields of an output row are those of review r.
Carries(row, r) ==
    /\ row.review_id = r.review_id
    /\ row.review_text = r.review_text
    /\ row.true_is_political = r.true_is_political

\* An outcome the code treats as a failed call.
Failed(o) == o.raised # "" \/ o.refusal # "" \/ ~o.has_parsed

(***************************************************************************)
(* Properties.                                                             *)
(***************************************************************************)
\* C1: every output row's stored reasoning has a regex word count (its
\* reasoning_words) of at most max_words, whatever the second call returned.
C1_ReasoningWithinLimit ==
    \A k \in 1..Len(rows) :
        /\ rows[k].reasoning_words = RegexWords(rows[k].reasoning)
        /\ rows[k].reasoning_words <= max_words

\* C2: each input review yields exactly one output row, in input order: the
\* rows built so far carry the fields of the first reviews of the input, and
\* a completed run has written one row per review of the dataset.
C2_OneRowPerReview ==
    /\ Len(rows) <= Len(df)
    /\ \A k \in 1..Len(rows) : Carries(rows[k], df[k])
    /\ pc = "done" =>
          /\ df = data_file
          /\ Len(out_file) = Len(data_file)
          /\ \A k \in 1..Len(out_file) : Carries(out_file[k], data_file[k])

C2_Witness ==
    /\ pc = "done"
    /\ Len(data_file) >= 2
    /\ data_file[1] # data_file[2]
    /\ Len(out_file) = Len(data_file)

\* C3: a call that ends in a refusal or any other failure ends the run with
\* that error (a refusal with RuntimeError carrying the refusal text); no
\* call is issued and nothing is written from then on.
C3_FailureAbortsRun ==
    [][ /\ (pc \in {"label_wait", "enforce_wait"} /\ Failed(msg')) =>
              /\ pc' = "error"
              /\ (msg'.raised # "" => err'.type = msg'.raised)
              /\ (msg'.raised = "" /\ msg'.refusal # "" =>
                      err' = [type |-> "RuntimeError", text |-> msg'.refusal])
              /\ label_calls' = label_calls
              /\ enforce_calls' = enforce_calls
        /\ pc' = "error" => (~written' /\ out_file' = out_file)
        /\ pc # "error"
      ]_vars

C3_Witness ==
    /\ pc = "error"
    /\ err = [type |-> "RuntimeError", text |-> "I cannot label this."]
    /\ Len(rows) >= 1
    /\ enforce_calls = label_calls
    /\ outstanding = 0
    /\ ~written

\* C4: the hard guard returns the second call's reasoning unchanged when its
\* regex word count is at most max_words, and otherwise its first max_words
\* whitespace-separated tokens joined by single spaces.
C4_HardGuard ==
    pc = "enforce_done" =>
        IF RegexWords(msg.reasoning) > max_words
        THEN IsFirstTokensJoined(out.reasoning, msg.reasoning, max_words)
        ELSE out.reasoning = msg.reasoning

C4_Witness ==
    /\ pc = "enforce_done"
    /\ RegexWords(msg.reasoning) > max_words
    /\ max_words >= 2
    /\ \E p \in 1..Len(msg.reasoning) : msg.reasoning[p] = "\t"
    /\ Cardinality(TokenStarts(msg.reasoning)) > max_words
    /\ out.reasoning # msg.reasoning

\* C5: the run is sequential with two calls per review: at most one call is
\* outstanding, the label call has returned before the enforcement call is
\* issued, every appended row had its enforcement call, and a completed run
\* over n reviews has issued 2n calls.
C5_TwoCallsInSequence ==
    /\ outstanding \in {0, 1}
    /\ outstanding = 1 <=> pc \in {"label_wait", "enforce_wait"}
    /\ pc \in {"label_wait", "label_done"} =>
          (label_calls = Len(rows) + 1 /\ enforce_calls = Len(rows))
    /\ pc \in {"enforce_wait", "enforce_done"} =>
          (label_calls = Len(rows) + 1 /\ enforce_calls = Len(rows) + 1)
    /\ pc \in {"loop", "done"} =>
          (label_calls = Len(rows) /\ enforce_calls = Len(rows))
    /\ pc = "done" => label_calls + enforce_calls = 2 * Len(df)

C5_Witness ==
    /\ pc = "enforce_wait"
    /\ word_count(result.reasoning) <= max_words
    /\ Len(rows) >= 1
    /\ outstanding = 1

\* C6: the accuracy of a completed run is the number of output rows whose
\* prediction equals the truth over the number of all output rows.
C6_Accuracy ==
    pc = "done" =>
        /\ acc[1] = Cardinality({ k \in 1..Len(out_file) :
                       out_file[k].pred_is_political = out_file[k].true_is_political })
        /\ acc[2] = Len(data_file)

C6_Witness ==
    /\ pc = "done"
    /\ Len(out_file) = 3
    /\ [k \in 1..3 |-> out_file[k].true_is_political] = <<1, 0, 1>>
    /\ [k \in 1..3 |-> out_file[k].pred_is_political] = <<1, 0, 0>>
    /\ acc = <<2, 3>>

\* C7: every output row's pred_is_political is 0 or 1.
C7_PredIsBinary ==
    \A k \in 1..Len(rows) : rows[k].pred_is_political \in {0, 1}

\* C8: a run over a dataset of zero reviews does not crash: it issues no
\* call, reports the accuracy as undefined (0 over 0) and writes an empty
\* table.
C8_EmptyRunCompletes ==
    (data_exists /\ data_file = <<>> /\ gen_n = -1) =>
        /\ pc # "error"
        /\ label_calls = 0
        /\ pc = "done" => (acc = <<0, 0>> /\ written /\ out_file = <<>>)

\* C9: the generator writes n reviews with ids 1..n in order, each labelled 1
\* exactly when its text comes from the political pool and 0 exactly when it
\* comes from the other, with or without a filler; and a dataset that exists
\* is never written again.
C9_Generator ==
    [][ /\ data_exists => data_file' = data_file
        /\ gen_n' # gen_n =>
              /\ ~data_exists /\ data_exists'
              /\ Len(data_file') = gen_n'
              /\ \A k \in 1..Len(data_file') :
                    /\ data_file'[k].review_id = k
                    /\ data_file'[k].true_is_political \in {0, 1}
                    /\ data_file'[k].true_is_political = 1
                          <=> DrawnFrom(political, data_file'[k].review_text)
                    /\ data_file'[k].true_is_political = 0
                          <=> DrawnFrom(nonpolitical, data_file'[k].review_text)
      ]_vars

C9_Witness ==
    /\ gen_n >= 2
    /\ Len(data_file) = gen_n
    /\ data_file[1].true_is_political = 1
    /\ data_file[1].review_text = political[6] \o " " \o fillers[3]
    /\ data_file[2].true_is_political = 0
    /\ data_file[2].review_text = nonpolitical[6] \o " " \o fillers[3]

\* C10: the result of enforce_reasoning_limit has the is_political of the
\* second response, and that value is the row's pred_is_political, also when
\* it differs from the first call's.
C10_SecondCallDecides ==
    [][ /\ (pc = "enforce_wait" /\ pc' = "enforce_done") =>
              out'.is_political = msg'.is_political
        /\ (pc = "enforce_done" /\ pc' = "loop") =>
              /\ Len(rows') = Len(rows) + 1
              /\ rows'[Len(rows')].pred_is_political = msg.is_political
      ]_vars

C10_Witness ==
    /\ pc = "enforce_done"
    /\ result.is_political = 1
    /\ msg.is_political = 0
    /\ out.is_political = 0

====
